---- MODULE Spec2Model ----
(***************************************************************************)
(* cqrtraffic: the multi-day loader (utils/load.py) and the station        *)
(* object FintrafficTMS (fintraffic.py).                                   *)
(*                                                                         *)
(* Three specifications share the variables:                               *)
(*   LoaderSpec   one call of read_report / read_several_reports with      *)
(*                arguments drawn from bounded sets;                       *)
(*   StationSpec  one FintrafficTMS object and any sequence of calls of    *)
(*                its methods;                                             *)
(*   Spec         either of the two.                                       *)
(* Numbers are integers: a time of day is in hundredths of a second, a tau *)
(* is in hundredths (50 is tau = 0.5).                                     *)
(***************************************************************************)
EXTENDS Integers, Sequences, FiniteSets, TLC

VARIABLES
    ld,            \* the last call of the loader: arguments, result, I/O trace
    station,       \* the attributes of the FintrafficTMS object
    last,          \* the last method called on the station: its tau_list argument,
                   \* the error it raised and the stage that raised it, the solver
                   \* calls it made in order, the legend labels it drew
    raised         \* whether a method called on the station has raised so far

vars == <<ld, station, last, raised>>

None == "None"

(***************************************************************************)
(* Bounds of the model.                                                    *)
(***************************************************************************)
MaxDays == 3          \* longest year_day_list of a direct loader call

(***************************************************************************)
(* Program constants.                                                      *)
(***************************************************************************)
DefHourFrom == 6
DefHourTo == 20
HourUnits == 360000   \* 60 * 60 * 100: hundredths of a second in an hour
MinYear == 1995
MaxDayOfYear == 366

(***************************************************************************)
(* The environment: the Fintraffic server.  A raw file is a sequence of    *)
(* rows; a day with no published file answers 404.                         *)
(***************************************************************************)
Row(t, d, f, v) == [total_time |-> t, direction |-> d, faulty |-> f, vehicle |-> v]

\* A file with a row on each edge of the default window, rows out of time
\* order, a faulty row and a row of the other direction.
FileA ==
    << Row(12 * 360000 + 5, 1, 0, 1),
       Row(3 * 360000, 1, 0, 1),
       Row(6 * 360000, 1, 0, 3),
       Row(12 * 360000, 1, 1, 2),
       Row(13 * 360000, 2, 0, 4),
       Row(20 * 360000, 1, 0, 8),
       Row(24 * 360000, 2, 0, 1) >>

\* A published file whose only rows are faulty or before 6 o'clock.
FileB ==
    << Row(12 * 360000, 1, 1, 1),
       Row(5 * 360000, 2, 0, 7) >>

\* A file with rows strictly inside the default window.
FileC ==
    << Row(15 * 360000, 1, 0, 5),
       Row(7 * 360000, 1, 0, 1),
       Row(8 * 360000, 2, 0, 6) >>

Found(file) == [status_code |-> 200, body |-> file]

NotFound == [status_code |-> 404, body |-> <<>>]

\* The answer of the server for <<tms_id, two-digit year, day>>.
Server(url) ==
    CASE url = <<123, <<"2", "1">>, 1>>   -> Found(FileA)
      [] url = <<123, <<"2", "1">>, 3>>   -> Found(FileB)
      [] url = <<123, <<"2", "1">>, 366>> -> Found(FileC)
      [] url = <<123, <<"2", "2">>, 1>>   -> Found(FileC)
      [] OTHER                            -> NotFound

(***************************************************************************)
(* String helpers: str(year)[2:4] and save_name.lower().endswith(".gzip"). *)
(* A file name is a sequence of one-character strings.                     *)
(***************************************************************************)
Digit(n) == CASE n = 0 -> "0" [] n = 1 -> "1" [] n = 2 -> "2" [] n = 3 -> "3"
              [] n = 4 -> "4" [] n = 5 -> "5" [] n = 6 -> "6" [] n = 7 -> "7"
              [] n = 8 -> "8" [] n = 9 -> "9"

RECURSIVE Str(_)
\* str(n) of a natural number, as a sequence of digit characters
Str(n) == IF n < 10 THEN <<Digit(n)>> ELSE Str(n \div 10) \o <<Digit(n % 10)>>

\* s[2:4] of Python, on a sequence (1-based positions 3 and 4)
Slice24(s) == SubSeq(s, 3, IF Len(s) < 4 THEN Len(s) ELSE 4)

\* str(year)[2:4], the year as the URL holds it
YY(year) == Slice24(Str(year))

LowerChar(c) ==
    CASE c = "G" -> "g" [] c = "Z" -> "z" [] c = "I" -> "i" [] c = "P" -> "p"
      [] c = "A" -> "a" [] c = "C" -> "c" [] c = "S" -> "s" [] c = "V" -> "v"
      [] OTHER -> c

Lower(s) == [i \in 1..Len(s) |-> LowerChar(s[i])]

EndsWith(s, suffix) ==
    /\ Len(s) >= Len(suffix)
    /\ SubSeq(s, Len(s) - Len(suffix) + 1, Len(s)) = suffix

GzipSuffix == <<".", "g", "z", "i", "p">>

NameOk(save_name) == EndsWith(Lower(save_name), GzipSuffix)

(***************************************************************************)
(* datetime.date(year, 1, 1) + datetime.timedelta(day - 1), as             *)
(* <<year, day of that year>>.  Day 366 of a common year is January 1st of *)
(* the next year.                                                          *)
(***************************************************************************)
IsLeap(y) == y % 4 = 0 /\ (y % 100 # 0 \/ y % 400 = 0)

DaysIn(y) == IF IsLeap(y) THEN 366 ELSE 365

DateOf(year, day) ==
    IF day <= DaysIn(year) THEN <<year, day>> ELSE <<year + 1, day - DaysIn(year)>>

(***************************************************************************)
(* read_report                                                             *)
(***************************************************************************)
\* the columns read_report adds to a row of the file
WithColumns(r, year, day) ==
    [ date       |-> DateOf(year, day),
      total_time |-> r.total_time,
      direction  |-> r.direction,
      faulty     |-> r.faulty,
      vehicle    |-> r.vehicle,
      cars       |-> IF r.vehicle = 1 THEN 1 ELSE 0,
      buses      |-> IF r.vehicle = 3 THEN 1 ELSE 0,
      trucks     |-> IF r.vehicle \in {2, 4, 5, 6, 7} THEN 1 ELSE 0 ]

DeleteFaulty(df) == LET Keep(r) == r.faulty # 1 IN SelectSeq(df, Keep)

\* df[df.total_time >= hour_from * 60 * 60 * 100]
FromHour(df, hour_from) ==
    LET Keep(r) == r.total_time >= hour_from * HourUnits IN SelectSeq(df, Keep)

\* df[df.total_time <= hour_to * 60 * 60 * 100]
ToHour(df, hour_to) ==
    LET Keep(r) == r.total_time <= hour_to * HourUnits IN SelectSeq(df, Keep)

OfDirection(df, direction) ==
    LET Keep(r) == r.direction = direction IN SelectSeq(df, Keep)

\* the assertions on the hour window and the direction (both functions)
WindowError(hour_from, hour_to, direction) ==
    CASE ~(0 <= hour_from /\ hour_from < 24) -> "assert hour_from"
      [] ~(0 < hour_to /\ hour_to <= 24)     -> "assert hour_to"
      [] ~(hour_from < hour_to)              -> "assert hour_from < hour_to"
      [] OTHER                               -> None

DirectionError(direction) ==
    IF direction = 1 \/ direction = 2 THEN None ELSE "assert direction"

\* ReportError without the assertions on day and year
ReportErrorWithoutDayCheck(year, day, direction, hour_from, hour_to) ==
    IF WindowError(hour_from, hour_to, direction) # None
    THEN WindowError(hour_from, hour_to, direction)
    ELSE DirectionError(direction)

\* the assertions of read_report, in the order of the code
ReportError(year, day, direction, hour_from, hour_to) ==
    CASE WindowError(hour_from, hour_to, direction) # None
            -> WindowError(hour_from, hour_to, direction)
      [] ~(1 <= day /\ day <= MaxDayOfYear) -> "assert day"
      [] ~(MinYear <= year)                 -> "assert year"
      [] OTHER                              -> DirectionError(direction)

Url(tms_id, year, day) == <<tms_id, YY(year), day>>

\* what a call of the loader leaves: the returned dataset (empty when the call
\* raised), the error raised, the requests sent in order, the file written, the
\* success counter and the "counter out of N" line printed at the end
Outcome(df, err, trace, saved) ==
    [df |-> df, err |-> err, trace |-> trace, saved |-> saved,
     counter |-> 0, reported |-> None]

Cleaned(file, year, day, direction, hour_from, hour_to, delete_if_faulty) ==
    LET df0 == [i \in 1..Len(file) |-> WithColumns(file[i], year, day)]
        df1 == IF delete_if_faulty = TRUE THEN DeleteFaulty(df0) ELSE df0
        df2 == FromHour(df1, hour_from)
        df3 == ToHour(df2, hour_to)
    IN  OfDirection(df3, direction)

ReadReport(tms_id, year, day, direction, hour_from, hour_to, delete_if_faulty, save_name) ==
    LET e   == ReportError(year, day, direction, hour_from, hour_to)
        url == Url(tms_id, year, day)
    IN  IF e # None THEN Outcome(<<>>, e, <<>>, <<>>)
        ELSE IF Server(url).status_code # 404
        THEN LET df == Cleaned(Server(url).body, year, day, direction,
                               hour_from, hour_to, delete_if_faulty)
                 io == << <<"get", url>>, <<"read_csv", url>> >>
             IN  IF save_name = None THEN Outcome(df, None, io, <<>>)
                 ELSE IF NameOk(save_name) THEN Outcome(df, None, io, <<save_name, df>>)
                 ELSE Outcome(<<>>, "assert save_name", io, <<>>)
        ELSE Outcome(<<>>, None, << <<"get", url>> >>, <<>>)

(***************************************************************************)
(* read_several_reports                                                    *)
(***************************************************************************)
\* LoopStep with the counter incremented for every day, also an empty one
LoopStepCountsEveryDay(acc, value, rep) ==
    LET tr == (acc.trace \o << <<"read_report", value>> >>) \o rep.trace
    IN  IF rep.err # None
        THEN [acc EXCEPT !.err = rep.err, !.trace = tr]
        ELSE IF acc.df = <<>>
        THEN [acc EXCEPT !.df = rep.df, !.counter = @ + 1, !.trace = tr]
        ELSE [acc EXCEPT !.df = acc.df \o rep.df, !.counter = @ + 1, !.trace = tr]

\* LoopStep with df = report in place of df = pd.concat([df, report])
LoopStepKeepsLastDay(acc, value, rep) ==
    LET tr == (acc.trace \o << <<"read_report", value>> >>) \o rep.trace
    IN  IF rep.err # None
        THEN [acc EXCEPT !.err = rep.err, !.trace = tr]
        ELSE IF rep.df # <<>>
        THEN [acc EXCEPT !.df = rep.df, !.counter = @ + 1, !.trace = tr]
        ELSE [acc EXCEPT !.trace = tr]

\* one iteration of the loop over year_day_list: acc is the loop's state
\* (df, counter, trace, err), rep the outcome of read_report for the day
LoopStep(acc, value, rep) ==
    LET tr == (acc.trace \o << <<"read_report", value>> >>) \o rep.trace
    IN  IF rep.err # None
        THEN [acc EXCEPT !.err = rep.err, !.trace = tr]
        ELSE IF acc.df = <<>>
        THEN IF rep.df # <<>>
             THEN [acc EXCEPT !.df = rep.df, !.counter = @ + 1, !.trace = tr]
             ELSE [acc EXCEPT !.trace = tr]
        ELSE IF rep.df # <<>>
             THEN [acc EXCEPT !.df = acc.df \o rep.df, !.counter = @ + 1, !.trace = tr]
             ELSE [acc EXCEPT !.trace = tr]

RECURSIVE Loop(_, _, _, _, _, _, _, _)
\* the for loop, from position i of year_day_list; an assertion of read_report
\* ends it
Loop(acc, i, tms_id, year_day_list, direction, hour_from, hour_to, delete_if_faulty) ==
    IF i > Len(year_day_list) \/ acc.err # None THEN acc
    ELSE LET value == year_day_list[i]
             rep   == ReadReport(tms_id, value[1], value[2], direction,
                                 hour_from, hour_to, delete_if_faulty, None)
         IN  Loop(LoopStep(acc, value, rep), i + 1, tms_id, year_day_list,
                  direction, hour_from, hour_to, delete_if_faulty)

\* the assertions read_several_reports makes before its loop
SeveralError(direction, hour_from, hour_to) ==
    IF WindowError(hour_from, hour_to, direction) # None
    THEN WindowError(hour_from, hour_to, direction)
    ELSE DirectionError(direction)

\* what follows the loop: acc is the loop's final state, n is len(year_day_list)
AfterLoop(acc, n, save_name) ==
    LET fail(err) == [Outcome(<<>>, err, acc.trace, <<>>) EXCEPT !.counter = acc.counter]
        done(saved) == [Outcome(acc.df, None, acc.trace, saved) EXCEPT
                            !.counter = acc.counter,
                            !.reported = <<acc.counter, n>>]
    IN  IF acc.err # None THEN fail(acc.err)
        ELSE IF acc.df = <<>> THEN fail("assert data loaded")
        ELSE IF save_name = None THEN done(<<>>)
        ELSE IF NameOk(save_name) THEN done(<<save_name, acc.df>>)
        ELSE [done(<<>>) EXCEPT !.df = <<>>, !.err = "assert save_name"]

ReadSeveralReports(tms_id, year_day_list, direction, hour_from, hour_to, delete_if_faulty, save_name) ==
    LET e    == SeveralError(direction, hour_from, hour_to)
        acc0 == [df |-> <<>>, counter |-> 0, trace |-> <<>>, err |-> None]
    IN  IF e # None THEN Outcome(<<>>, e, <<>>, <<>>)
        ELSE AfterLoop(Loop(acc0, 1, tms_id, year_day_list, direction,
                            hour_from, hour_to, delete_if_faulty),
                       Len(year_day_list), save_name)

(***************************************************************************)
(* Inputs of the direct loader calls.                                      *)
(***************************************************************************)
TmsId == 123

\* (year, day) pairs: published days, a day with no file, day 366 of a common
\* year, and two invalid pairs
DayPairs ==
    { <<2021, 1>>, <<2021, 2>>, <<2021, 366>>, <<2022, 1>>, <<2021, 367>>, <<1994, 1>> }

SeqsUpTo(S, n) == UNION { [1..k -> S] : k \in 0..n }

HoursFrom == {-1, 6, 20}
HoursTo == {6, 20, 24, 25}
Directions == {1, 2, 3}
SaveNames == { None, <<"a", ".", "G", "z", "i", "p">>, <<"a", ".", "c", "s", "v">> }

NoOut == [df |-> <<>>, err |-> None, trace |-> <<>>, saved |-> <<>>,
          counter |-> 0, reported |-> None]

ArgsOver(lists) ==
    [ tms_id : {TmsId}, year_day_list : lists,
      direction : Directions, hour_from : HoursFrom, hour_to : HoursTo,
      delete_if_faulty : BOOLEAN, save_name : SaveNames ]

\* read_several_reports takes a list, read_report one pair
LoaderArgs == ArgsOver(SeqsUpTo(DayPairs, MaxDays))

ReportArgs == ArgsOver([1..1 -> DayPairs])

Pending(o, a) == [op |-> o, status |-> "pending", args |-> a, out |-> NoOut]

NoCall == [op |-> None, status |-> "none", args |-> None, out |-> NoOut]

\* no station object (LoaderSpec never builds one), no method called yet
NoStation == [tms_id |-> 0]

NoMethod ==
    [op |-> None, tau_list |-> <<>>, err |-> None, stage |-> None,
     log |-> <<>>, labels |-> <<>>]

LoaderInit ==
    /\ \/ \E a \in LoaderArgs : ld = Pending("read_several_reports", a)
       \/ \E a \in ReportArgs : ld = Pending("read_report", a)
    /\ station = NoStation
    /\ last = NoMethod
    /\ raised = FALSE

\* a direct call of read_report, for the first pair of the list
CallReadReport ==
    /\ ld.op = "read_report" /\ ld.status = "pending"
    /\ LET a == ld.args
           value == a.year_day_list[1]
       IN  ld' = [ld EXCEPT !.status = "done",
                            !.out = ReadReport(a.tms_id, value[1], value[2], a.direction,
                                               a.hour_from, a.hour_to,
                                               a.delete_if_faulty, a.save_name)]
    /\ UNCHANGED <<station, last, raised>>

\* a direct call of read_several_reports
CallReadSeveralReports ==
    /\ ld.op = "read_several_reports" /\ ld.status = "pending"
    /\ LET a == ld.args
       IN  ld' = [ld EXCEPT !.status = "done",
                            !.out = ReadSeveralReports(a.tms_id, a.year_day_list,
                                        a.direction, a.hour_from, a.hour_to,
                                        a.delete_if_faulty, a.save_name)]
    /\ UNCHANGED <<station, last, raised>>

LoaderNext == CallReadReport \/ CallReadSeveralReports

LoaderSpec == LoaderInit /\ [][LoaderNext]_vars

(***************************************************************************)
(* Vocabulary of the loader claims.                                        *)
(***************************************************************************)
SeveralDone == ld.op = "read_several_reports" /\ ld.status = "done"

ReportDone == ld.op = "read_report" /\ ld.status = "done"

\* the result of the retrieval of list entry i, taken alone
DayResult(a, i) ==
    ReadReport(a.tms_id, a.year_day_list[i][1], a.year_day_list[i][2], a.direction,
               a.hour_from, a.hour_to, a.delete_if_faulty, None)

\* the list entries that are available: their retrieval yields rows
AvailableDays(a) ==
    { i \in 1..Len(a.year_day_list) : DayResult(a, i).err = None /\ DayResult(a, i).df # <<>> }

DatesOf(df) == { df[j].date : j \in 1..Len(df) }

RECURSIVE ConcatDays(_, _)
\* the per-day results of entries i.. of the list, one after the other
ConcatDays(a, i) ==
    IF i > Len(a.year_day_list) THEN <<>>
    ELSE DayResult(a, i).df \o ConcatDays(a, i + 1)

\* the pairs read_report was called for, in order
Requested(trace) ==
    LET calls_only == SelectSeq(trace, LAMBDA e : e[1] = "read_report")
    IN  [j \in 1..Len(calls_only) |-> calls_only[j][2]]

\* the URLs requests were sent to, in order
Fetched(trace) ==
    LET io == SelectSeq(trace, LAMBDA e : e[1] # "read_report")
    IN  [j \in 1..Len(io) |-> io[j][2]]

ParameterErrors ==
    { "assert hour_from", "assert hour_to", "assert hour_from < hour_to",
      "assert day", "assert year", "assert direction" }

PairValid(value) == 1 <= value[2] /\ value[2] <= 366 /\ 1995 <= value[1]

\* the position of the first invalid pair of the list (Len + 1 when none)
FirstInvalid(list) ==
    LET bad == { i \in 1..Len(list) : ~PairValid(list[i]) }
    IN  IF bad = {} THEN Len(list) + 1
        ELSE CHOOSE i \in bad : \A j \in bad : i <= j

\* t lies in the window [hour_from, hour_to), hour_to excluded
InWindow(t, hour_from, hour_to) == hour_from * 360000 <= t /\ t < hour_to * 360000

\* s holds rows of file in the order of the file
RECURSIVE InFileOrder(_, _)
InFileOrder(s, file) ==
    IF s = <<>> THEN TRUE
    ELSE IF file = <<>> THEN FALSE
    ELSE IF Head(s) = Head(file) THEN InFileOrder(Tail(s), Tail(file))
    ELSE InFileOrder(s, Tail(file))

RawRow(r) == Row(r.total_time, r.direction, r.faulty, r.vehicle)

(***************************************************************************)
(* C1 (as stated): when read_several_reports returns, the dataset spans    *)
(* exactly M distinct days and the reported counter is M, M being the      *)
(* number of requested pairs that are available; with M = 0 the call       *)
(* raises.                                                                 *)
(***************************************************************************)
C1_Original ==
    SeveralDone =>
        LET M == Cardinality(AvailableDays(ld.args))
        IN  /\ ld.out.err = None =>
                  /\ Cardinality(DatesOf(ld.out.df)) = M
                  /\ ld.out.reported = <<M, Len(ld.args.year_day_list)>>
            /\ M = 0 => ld.out.err # None

(***************************************************************************)
(* C1 (amended): the reported counter is M and the call raises when        *)
(* M = 0; the dataset spans as many distinct days as the M available       *)
(* entries have distinct dates, which is M when no date is requested       *)
(* twice.                                                                  *)
(***************************************************************************)
C1_CounterAndDays ==
    SeveralDone =>
        LET a == ld.args
            M == Cardinality(AvailableDays(a))
            dates == { DateOf(a.year_day_list[i][1], a.year_day_list[i][2]) :
                         i \in AvailableDays(a) }
        IN  /\ ld.out.err = None =>
                  /\ ld.out.counter = M
                  /\ ld.out.reported = <<M, Len(a.year_day_list)>>
                  /\ DatesOf(ld.out.df) = dates
                  /\ Cardinality(dates) = M => Cardinality(DatesOf(ld.out.df)) = M
            /\ M = 0 => ld.out.err # None /\ ld.out.df = <<>>

\* three requested days of which two are available, on distinct dates
C1_Witness ==
    /\ SeveralDone /\ ld.out.err = None
    /\ Len(ld.args.year_day_list) = 3
    /\ ld.out.counter = 2
    /\ Cardinality(DatesOf(ld.out.df)) = 2

(***************************************************************************)
(* C2: every row of a returned dataset has its time of day in              *)
(* [hour_from * 360000, hour_to * 360000): hour_to is excluded.            *)
(***************************************************************************)
C2_WindowExcludesHourTo ==
    (ld.status = "done" /\ ld.out.err = None) =>
        \A j \in 1..Len(ld.out.df) :
            InWindow(ld.out.df[j].total_time, ld.args.hour_from, ld.args.hour_to)

(***************************************************************************)
(* C3: the dataset read_several_reports returns is the concatenation, in   *)
(* list order, of the per-day results, each day's rows in the order of its *)
(* file; when no parameter assertion fails, read_report is called once for *)
(* every entry of the list, in list order, whatever the earlier days       *)
(* yielded.                                                                *)
(***************************************************************************)
C3_ConcatInOrder ==
    SeveralDone =>
        LET a == ld.args
        IN  /\ ld.out.err = None => ld.out.df = ConcatDays(a, 1)
            /\ ld.out.err \notin ParameterErrors => Requested(ld.out.trace) = a.year_day_list
            /\ \A i \in AvailableDays(a) :
                  InFileOrder([j \in 1..Len(DayResult(a, i).df) |-> RawRow(DayResult(a, i).df[j])],
                              Server(Url(a.tms_id, a.year_day_list[i][1],
                                         a.year_day_list[i][2])).body)

\* a list whose first day is empty and whose later days yield rows
C3_Witness ==
    /\ SeveralDone /\ ld.out.err = None
    /\ Len(ld.args.year_day_list) = 3
    /\ 1 \notin AvailableDays(ld.args)
    /\ AvailableDays(ld.args) = {2, 3}
    /\ Len(ld.out.df) >= 3

(***************************************************************************)
(* C4 (as stated): when read_several_reports rejects a parameter, no       *)
(* retrieval was started before.                                           *)
(***************************************************************************)
C4_Original ==
    /\ (SeveralDone /\ ld.out.err \in ParameterErrors) => Fetched(ld.out.trace) = <<>>
    /\ (last.op = "make_model" /\ last.err = "ParameterInvalid") =>
          Fetched(ld.out.trace) = <<>>

(***************************************************************************)
(* C4 (amended): the hour window and the direction are checked before any  *)
(* retrieval; a (year, day) pair is checked when its own turn comes, after *)
(* the retrievals of the pairs before it: no request is ever sent for an   *)
(* invalid pair, and the days before the first invalid pair have all been  *)
(* requested when it is rejected.  make_model checks nothing itself: a     *)
(* grid size or an aggregation period is rejected by its stage, after      *)
(* every day of the list has been requested.                               *)
(***************************************************************************)
C4_ChecksBeforeOwnRequest ==
    /\ (last.op = "make_model" /\ last.err = "ParameterInvalid") =>
          /\ last.stage \in {"aggregate", "bagging"}
          /\ ld.out.err = None
          /\ Requested(ld.out.trace) = station.days_list
    /\ SeveralDone =>
        LET a == ld.args
            k == FirstInvalid(a.year_day_list)
            before == SubSeq(a.year_day_list, 1, k - 1)
        IN  /\ SeveralError(a.direction, a.hour_from, a.hour_to) # None =>
                  /\ ld.out.err \in ParameterErrors
                  /\ ld.out.trace = <<>>
            /\ (SeveralError(a.direction, a.hour_from, a.hour_to) = None
                  /\ k <= Len(a.year_day_list)) =>
                  /\ ld.out.err \in {"assert day", "assert year"}
                  /\ Requested(ld.out.trace) = SubSeq(a.year_day_list, 1, k)
                  /\ \A u \in 1..Len(Fetched(ld.out.trace)) :
                        \E j \in 1..Len(before) :
                            Fetched(ld.out.trace)[u] =
                                Url(a.tms_id, before[j][1], before[j][2])
                  /\ \A j \in 1..Len(before) :
                        \E u \in 1..Len(Fetched(ld.out.trace)) :
                            Fetched(ld.out.trace)[u] =
                                Url(a.tms_id, before[j][1], before[j][2])

\* an invalid pair rejected after the day before it was fetched
C4_Witness ==
    /\ SeveralDone /\ ld.out.err = "assert day"
    /\ Len(Fetched(ld.out.trace)) >= 1
    /\ Len(Requested(ld.out.trace)) = 2

(***************************************************************************)
(* FintrafficTMS.  An attribute that was never assigned is Unset (reading  *)
(* it raises AttributeError); an assigned one is Set(value).               *)
(***************************************************************************)
Unset == <<>>

Set(v) == <<v>>

IsSet(attr) == attr # <<>>

Val(attr) == attr[1]

\* __init__
NewStation(tms_id, days_list, direction, tau_list, hour_from, hour_to) ==
    [ tms_id |-> tms_id, days_list |-> days_list,
      hour_from |-> hour_from, hour_to |-> hour_to,
      direction |-> direction, tau_list |-> tau_list,
      raw_data |-> Unset,
      agg_data |-> Unset, agg_time_period |-> Unset,
      agg_flow |-> Unset, agg_density |-> Unset,
      bag_data |-> Unset, gridsize_x |-> Unset, gridsize_y |-> Unset,
      bag_density |-> Unset, bag_flow |-> Unset, weight |-> Unset,
      bagged_model |-> Unset, time_weighted |-> Unset ]

\* the result of a method: the station it leaves, the error it raised
Ret(s, err) == [s |-> s, err |-> err]

\* the same, for a method that calls the loader
RetLoaded(s, err, call) == [s |-> s, err |-> err, call |-> call]

(***************************************************************************)
(* cqrtraffic.utils.process is not part of the sources at hand: aggregate  *)
(* and bagging are the transformations the specification describes, kept   *)
(* as terms over their inputs; each rejects a non-positive parameter.      *)
(***************************************************************************)
ProcessAggregate(data, direction, aggregation_time_period) ==
    IF aggregation_time_period <= 0
    THEN [err |-> "ParameterInvalid", val |-> <<>>]
    ELSE [err |-> None,
          val |-> Set([made_by |-> "aggregate", data |-> data, direction |-> direction,
                       aggregation_time_period |-> aggregation_time_period])]

ProcessBagging(agg_data, gridsize_x, gridsize_y) ==
    IF gridsize_x <= 0 \/ gridsize_y <= 0
    THEN [err |-> "ParameterInvalid", val |-> <<>>]
    ELSE [err |-> None,
          val |-> Set([made_by |-> "bagging", data |-> agg_data,
                       gridsize_x |-> gridsize_x, gridsize_y |-> gridsize_y])]

\* data["name"], data.name
Column(data, name) == [column |-> name, of |-> data]

(***************************************************************************)
(* load_raw_data: read_several_reports with tms_id, year_day_list and      *)
(* direction; the other parameters take their defaults.                    *)
(***************************************************************************)
LoadArgs(s) ==
    [ tms_id |-> s.tms_id, year_day_list |-> s.days_list, direction |-> s.direction,
      hour_from |-> DefHourFrom, hour_to |-> DefHourTo,
      delete_if_faulty |-> TRUE, save_name |-> None ]

LoaderCall(a) ==
    [ op |-> "read_several_reports", status |-> "done", args |-> a,
      out |-> ReadSeveralReports(a.tms_id, a.year_day_list, a.direction, a.hour_from,
                                 a.hour_to, a.delete_if_faulty, a.save_name) ]

\* self.raw_data = <what the call returned>; nothing is assigned when it raised
AssignRawData(s, call) ==
    IF call.out.err # None THEN RetLoaded(s, call.out.err, call)
    ELSE RetLoaded([s EXCEPT !.raw_data = Set(call.out.df)], None, call)

LoadRawData(s) == AssignRawData(s, LoaderCall(LoadArgs(s)))

(***************************************************************************)
(* aggregate, bagging                                                      *)
(***************************************************************************)
StationAggregate(s, aggregation_time_period) ==
    IF ~IsSet(s.raw_data) THEN Ret(s, "AttributeError")
    ELSE LET r == ProcessAggregate(Val(s.raw_data), s.direction, aggregation_time_period)
         IN  IF r.err # None THEN Ret(s, r.err)
             ELSE Ret([s EXCEPT !.agg_data = r.val,
                                !.agg_time_period = Set(aggregation_time_period),
                                !.agg_flow = Set(Column(Val(r.val), "flow")),
                                !.agg_density = Set(Column(Val(r.val), "density"))],
                      None)

\* bagging with the grid sizes assigned before process.bagging is called
StationBaggingAssignsFirst(s, gridsize_x, gridsize_y) ==
    IF ~IsSet(s.agg_data) THEN Ret(s, "AttributeError")
    ELSE LET s1 == [s EXCEPT !.gridsize_x = Set(gridsize_x), !.gridsize_y = Set(gridsize_y)]
             r  == ProcessBagging(Val(s.agg_data), gridsize_x, gridsize_y)
         IN  IF r.err # None THEN Ret(s1, r.err)
             ELSE Ret([s1 EXCEPT !.bag_data = r.val,
                                 !.bag_density = Set(Column(Val(r.val), "centroid_density")),
                                 !.bag_flow = Set(Column(Val(r.val), "centroid_flow")),
                                 !.weight = Set(Column(Val(r.val), "weight"))],
                      None)

StationBagging(s, gridsize_x, gridsize_y) ==
    IF ~IsSet(s.agg_data) THEN Ret(s, "AttributeError")
    ELSE LET r == ProcessBagging(Val(s.agg_data), gridsize_x, gridsize_y)
         IN  IF r.err # None THEN Ret(s, r.err)
             ELSE Ret([s EXCEPT !.bag_data = r.val,
                                !.gridsize_x = Set(gridsize_x),
                                !.gridsize_y = Set(gridsize_y),
                                !.bag_density = Set(Column(Val(r.val), "centroid_density")),
                                !.bag_flow = Set(Column(Val(r.val), "centroid_flow")),
                                !.weight = Set(Column(Val(r.val), "weight"))],
                      None)

(***************************************************************************)
(* The solver as weighted_model uses it: wCQER.wCQR builds a model whose   *)
(* beta carries the solver's default lower bound, setlb replaces the       *)
(* bound, optimize solves with the bound then in place.                    *)
(***************************************************************************)
DefaultLb == "0"

WCQR(y, x, w, tau) ==
    [y |-> y, x |-> x, w |-> w, tau |-> tau, beta_lb |-> DefaultLb, solved_with |-> Unset]

SetLb(model, lb) == [model EXCEPT !.beta_lb = lb]

\* optimize(email) solves remotely, optimize() locally: the same problem
Optimize(model, email) == [model EXCEPT !.solved_with = Set(model.beta_lb)]

\* the time.perf_counter() difference recorded for a fit
Elapsed == "seconds"

\* Fit without the call of setlb
FitWithoutSetLb(s, k, tau, email) ==
    LET m0 == WCQR(Column(Val(s.bag_data), "centroid_flow"),
                   Column(Val(s.bag_data), "centroid_density"),
                   Val(s.weight), tau)
        m2 == Optimize(m0, email)
    IN  [ model |-> m2,
          log   |-> << [call |-> "wCQR", k |-> k, beta_lb |-> m0.beta_lb],
                       [call |-> IF email # None THEN "optimize(email)" ELSE "optimize()",
                        k |-> k, beta_lb |-> m0.beta_lb] >> ]

\* Fit on self.agg_flow and self.agg_density in place of the centroids
FitOnAggregate(s, k, tau, email) ==
    LET m0 == WCQR(Val(s.agg_flow), Val(s.agg_density), Val(s.weight), tau)
        m1 == SetLb(m0, None)
        m2 == Optimize(m1, email)
    IN  [ model |-> m2,
          log   |-> << [call |-> "wCQR", k |-> k, beta_lb |-> m0.beta_lb],
                       [call |-> "setlb", k |-> k, beta_lb |-> m1.beta_lb],
                       [call |-> IF email # None THEN "optimize(email)" ELSE "optimize()",
                        k |-> k, beta_lb |-> m1.beta_lb] >> ]

\* the body of the loop of weighted_model for the k-th tau, up to optimize: the
\* model as optimize leaves it, and the solver calls in order, each with the
\* lower bound in place when it is made
Fit(s, k, tau, email) ==
    LET m0 == WCQR(Column(Val(s.bag_data), "centroid_flow"),
                   Column(Val(s.bag_data), "centroid_density"),
                   Val(s.weight), tau)
        m1 == SetLb(m0, None)
        m2 == Optimize(m1, email)
    IN  [ model |-> m2,
          log   |-> << [call |-> "wCQR", k |-> k, beta_lb |-> m0.beta_lb],
                       [call |-> "setlb", k |-> k, beta_lb |-> m1.beta_lb],
                       [call |-> IF email # None THEN "optimize(email)" ELSE "optimize()",
                        k |-> k, beta_lb |-> m1.beta_lb] >> ]

\* ResetModels that creates the lists only when the station has none yet
ResetModelsOnlyOnce(s) ==
    IF IsSet(s.bagged_model) THEN s
    ELSE [s EXCEPT !.bagged_model = Set(<<>>), !.time_weighted = Set(<<>>)]

\* the station weighted_model starts from: both lists emptied
ResetModels(s) == [s EXCEPT !.bagged_model = Set(<<>>), !.time_weighted = Set(<<>>)]

\* the tau list weighted_model and make_model work on
EffectiveTaus(s, tau_list) == IF tau_list = Unset THEN s.tau_list ELSE Val(tau_list)

RECURSIVE FitLoop(_, _, _, _, _)
\* the loop over taus from position k; acc is (station, error, solver calls);
\* fail_at is the position whose optimize raises (0: none does)
FitLoop(acc, k, taus, email, fail_at) ==
    IF k > Len(taus) \/ acc.err # None THEN acc
    ELSE IF ~IsSet(acc.s.bag_data) \/ ~IsSet(acc.s.weight)
    THEN [acc EXCEPT !.err = "AttributeError"]
    ELSE LET f == Fit(acc.s, k, taus[k], email)
         IN  IF k = fail_at
             THEN [acc EXCEPT !.err = "SolverFailure", !.log = @ \o f.log]
             ELSE FitLoop([acc EXCEPT
                              !.s.bagged_model = Set(Append(Val(@), f.model)),
                              !.s.time_weighted = Set(Append(Val(@), Elapsed)),
                              !.log = @ \o f.log],
                          k + 1, taus, email, fail_at)

WeightedModel(s, tau_list, email, fail_at) ==
    FitLoop([s |-> ResetModels(s), err |-> None, log |-> <<>>], 1,
            EffectiveTaus(s, tau_list), email, fail_at)

(***************************************************************************)
(* plot_model: the legend labels, one per fitted model                     *)
(***************************************************************************)
Representations == {"agg", "bag", "bag_w"}

\* the attributes the scatter plot of a representation reads
ScatterReads(s, rep) ==
    CASE rep = "agg" -> <<s.agg_density, s.agg_flow>>
      [] rep = "bag" -> <<s.bag_density, s.bag_flow>>
      [] rep = "bag_w" -> <<s.bag_density, s.bag_flow, s.weight>>

RECURSIVE Labels(_, _, _)
\* "tau=" + str(self.tau_list[color_index]) for the models from position i
Labels(acc, s, i) ==
    IF i > Len(Val(s.bagged_model)) THEN acc
    ELSE IF i > Len(s.tau_list) THEN [acc EXCEPT !.err = "IndexError"]
    ELSE Labels([acc EXCEPT !.labels = Append(@, s.tau_list[i])], s, i + 1)

PlotModel(s, rep) ==
    IF rep \notin Representations THEN [labels |-> <<>>, err |-> "Exception"]
    ELSE IF \E j \in 1..Len(ScatterReads(s, rep)) : ~IsSet(ScatterReads(s, rep)[j])
    THEN [labels |-> <<>>, err |-> "AttributeError"]
    ELSE IF ~IsSet(s.bagged_model) THEN [labels |-> <<>>, err |-> "AttributeError"]
    ELSE Labels([labels |-> <<>>, err |-> None], s, 1)

(***************************************************************************)
(* make_model: load_raw_data, aggregate, bagging, weighted_model; an       *)
(* exception of a stage ends the chain.                                    *)
(***************************************************************************)
Chain(s, err, stage, log, call) ==
    [s |-> s, err |-> err, stage |-> stage, log |-> log, call |-> call]

\* the last stage, and what make_model leaves
ThenWeightedModel(r4, call) ==
    Chain(r4.s, r4.err, IF r4.err # None THEN "weighted_model" ELSE None, r4.log, call)

\* r3 is what self.bagging(...) returned
ThenBagging(r3, call, taus, email, fail_at) ==
    IF r3.err # None THEN Chain(r3.s, r3.err, "bagging", <<>>, call)
    ELSE ThenWeightedModel(WeightedModel(r3.s, taus, email, fail_at), call)

\* r2 is what self.aggregate(...) returned
ThenAggregate(r2, call, gridsize_x, gridsize_y, taus, email, fail_at) ==
    IF r2.err # None THEN Chain(r2.s, r2.err, "aggregate", <<>>, call)
    ELSE ThenBagging(StationBagging(r2.s, gridsize_x, gridsize_y), call,
                     taus, email, fail_at)

\* loaded is what self.load_raw_data(), the first call of the chain, returned
\* for the station make_model was called on
MakeModel(loaded, aggregation_time_period, gridsize_x, gridsize_y, tau_list, email, fail_at) ==
    IF loaded.err # None
    THEN Chain(loaded.s, loaded.err, "load_raw_data", <<>>, loaded.call)
    ELSE ThenAggregate(StationAggregate(loaded.s, aggregation_time_period), loaded.call,
                       gridsize_x, gridsize_y, Set(EffectiveTaus(loaded.s, tau_list)),
                       email, fail_at)

(***************************************************************************)
(* One station and the calls made on it.                                   *)
(***************************************************************************)
\* days_list of the station: days with a file (2021-1, 2022-1), without one
\* (2021-2), an invalid pair (2021-367), the empty list
StationDayLists ==
    { <<>>,
      << <<2022, 1>> >>,
      << <<2021, 2>> >>,
      << <<2021, 2>>, <<2021, 2>> >>,
      << <<2021, 2>>, <<2021, 1>> >>,
      << <<2022, 1>>, <<2021, 2>>, <<2021, 1>> >>,
      << <<2022, 1>>, <<2021, 367>> >> }

StationWindows == { <<6, 20>>, <<12, 16>> }

StationDirections == {1, 3}

TauLists == { <<50>>, <<25, 75>> }

TauArgs == { Unset, Set(<<75, 25>>) }

Periods == {0, 5, 10}

Grids == { <<70, 400>>, <<0, 400>> }

Emails == { None, "user@example.org" }

\* the record of a call: stage is the method the exception came from
Method(op, tau_list, err, stage, log, labels) ==
    [op |-> op, tau_list |-> tau_list, err |-> err,
     stage |-> IF err = None THEN None ELSE stage, log |-> log, labels |-> labels]

IsStation == station # NoStation

StationInit ==
    /\ \E days_list \in StationDayLists,
          direction \in StationDirections, tau_list \in TauLists,
          window \in StationWindows :
            station = NewStation(TmsId, days_list, direction, tau_list,
                                 window[1], window[2])
    /\ ld = NoCall
    /\ last = NoMethod
    /\ raised = FALSE

CallLoadRawData ==
    /\ IsStation
    /\ \E r \in {LoadRawData(station)} :
           /\ station' = r.s
           /\ last' = Method("load_raw_data", <<>>, r.err, "load_raw_data", <<>>, <<>>)
           /\ raised' = (raised \/ r.err # None)
           /\ ld' = r.call

CallAggregate ==
    /\ IsStation
    /\ \E p \in Periods :
        \E r \in {StationAggregate(station, p)} :
            /\ station' = r.s
            /\ last' = Method("aggregate", <<>>, r.err, "aggregate", <<>>, <<>>)
            /\ raised' = (raised \/ r.err # None)
            /\ UNCHANGED ld

CallBagging ==
    /\ IsStation
    /\ \E g \in Grids :
        \E r \in {StationBagging(station, g[1], g[2])} :
            /\ station' = r.s
            /\ last' = Method("bagging", <<>>, r.err, "bagging", <<>>, <<>>)
            /\ raised' = (raised \/ r.err # None)
            /\ UNCHANGED ld

CallWeightedModel ==
    /\ IsStation
    /\ \E tau_list \in TauArgs, email \in Emails :
        \E fail_at \in 0..Len(EffectiveTaus(station, tau_list)) :
            \E r \in {WeightedModel(station, tau_list, email, fail_at)} :
                /\ station' = r.s
                /\ last' = Method("weighted_model", tau_list, r.err, "weighted_model",
                                  r.log, <<>>)
                /\ raised' = (raised \/ r.err # None)
                /\ UNCHANGED ld

CallPlotModel ==
    /\ IsStation
    /\ \E rep \in Representations \cup {"raw"} :
        \E r \in {PlotModel(station, rep)} :
            /\ last' = Method("plot_model", <<>>, r.err, "plot_model", <<>>, r.labels)
            /\ raised' = (raised \/ r.err # None)
            /\ UNCHANGED <<ld, station>>

CallMakeModel ==
    /\ IsStation
    /\ \E loaded \in {LoadRawData(station)} :
      \E p \in Periods, g \in Grids, tau_list \in TauArgs, email \in Emails :
        \E fail_at \in 0..Len(EffectiveTaus(station, tau_list)) :
            \E r \in {MakeModel(loaded, p, g[1], g[2], tau_list, email, fail_at)} :
                /\ station' = r.s
                /\ last' = Method("make_model", tau_list, r.err, r.stage, r.log, <<>>)
                /\ raised' = (raised \/ r.err # None)
                /\ ld' = r.call

StationNext ==
    \/ CallLoadRawData
    \/ CallAggregate
    \/ CallBagging
    \/ CallWeightedModel
    \/ CallPlotModel
    \/ CallMakeModel

StationSpec == StationInit /\ [][StationNext]_vars

Init == LoaderInit \/ StationInit

Next == LoaderNext \/ StationNext

Spec == Init /\ [][Next]_vars

(***************************************************************************)
(* Vocabulary of the station claims.                                       *)
(***************************************************************************)
ModelAttrs(s) == <<s.bagged_model, s.time_weighted>>

BagAttrs(s) ==
    <<s.bag_data, s.gridsize_x, s.gridsize_y, s.bag_density, s.bag_flow, s.weight>>

AggAttrs(s) == <<s.agg_data, s.agg_time_period, s.agg_flow, s.agg_density>>

TausOf(models) == [i \in 1..Len(models) |-> models[i].tau]

\* the tau list the last weighted_model / make_model was asked for
AskedTaus == IF last.tau_list = <<>> THEN station.tau_list ELSE last.tau_list[1]

FitCall == last.op \in {"weighted_model", "make_model"}

IsOptimize(e) == e.call \in {"optimize()", "optimize(email)"}

AggFresh(s) ==
    IsSet(s.agg_data) =>
        /\ IsSet(s.raw_data)
        /\ s.agg_data[1].data = s.raw_data[1]

BagFresh(s) ==
    IsSet(s.bag_data) =>
        /\ IsSet(s.agg_data)
        /\ s.bag_data[1].data = s.agg_data[1]

ModelsFresh(s) ==
    IsSet(s.bagged_model) =>
        \A i \in 1..Len(s.bagged_model[1]) :
            /\ IsSet(s.bag_data)
            /\ s.bagged_model[1][i].x = Column(s.bag_data[1], "centroid_density")
            /\ s.bagged_model[1][i].y = Column(s.bag_data[1], "centroid_flow")
            /\ s.bagged_model[1][i].w = Column(s.bag_data[1], "weight")

(***************************************************************************)
(* C5 (as stated): when a stage of make_model raises, the caches of that   *)
(* stage and of the later stages are as they were before the call.         *)
(***************************************************************************)
C5_Original ==
    [][ (last'.op = "make_model" /\ last'.err # None) =>
          /\ last'.stage = "load_raw_data" => station' = station
          /\ last'.stage = "aggregate" =>
                /\ AggAttrs(station') = AggAttrs(station)
                /\ BagAttrs(station') = BagAttrs(station)
                /\ ModelAttrs(station') = ModelAttrs(station)
          /\ last'.stage = "bagging" =>
                /\ BagAttrs(station') = BagAttrs(station)
                /\ ModelAttrs(station') = ModelAttrs(station)
          /\ last'.stage = "weighted_model" =>
                ModelAttrs(station') = ModelAttrs(station) ]_vars

(***************************************************************************)
(* C5 (amended): when a stage of make_model raises, no later stage runs    *)
(* and the caches of the later stages are as they were before the call;    *)
(* load_raw_data, aggregate and bagging write their own caches only when   *)
(* they complete.  weighted_model empties the model and duration lists     *)
(* when it starts and appends to them tau by tau: when the solver raises   *)
(* on the k-th tau, the lists hold the k - 1 models fitted before it.      *)
(***************************************************************************)
C5_StagesAfterFailure ==
    [][ (last'.op = "make_model" /\ last'.err # None) =>
          /\ last'.stage \in {"load_raw_data", "aggregate", "bagging", "weighted_model"}
          /\ last'.stage = "load_raw_data" => station' = station
          /\ last'.stage = "aggregate" =>
                station' = [station EXCEPT !.raw_data = Set(ld'.out.df)]
          /\ last'.stage = "bagging" =>
                /\ BagAttrs(station') = BagAttrs(station)
                /\ ModelAttrs(station') = ModelAttrs(station)
                /\ AggFresh(station')
          /\ last'.stage = "weighted_model" =>
                LET k == last'.log[Len(last'.log)].k
                    taus == IF last'.tau_list = <<>> THEN station.tau_list
                            ELSE last'.tau_list[1]
                IN  /\ last'.err = "SolverFailure"
                    /\ BagFresh(station') /\ AggFresh(station')
                    /\ TausOf(station'.bagged_model[1]) = SubSeq(taus, 1, k - 1)
                    /\ Len(station'.time_weighted[1]) = k - 1 ]_vars

\* the solver raised on the second tau of make_model: one model is held
C5_Witness ==
    /\ last.op = "make_model" /\ last.err = "SolverFailure"
    /\ Len(station.bagged_model[1]) = 1
    /\ Len(AskedTaus) = 2

(***************************************************************************)
(* C6: after a successful weighted_model (or make_model), the model list   *)
(* holds one fitted model per tau of that call's list (the station's       *)
(* tau_list when none is passed), in the order of the list, and the        *)
(* duration list has one entry per model; what earlier calls left is gone. *)
(***************************************************************************)
C6_OneModelPerTau ==
    (FitCall /\ last.err = None) =>
        /\ IsSet(station.bagged_model) /\ IsSet(station.time_weighted)
        /\ TausOf(station.bagged_model[1]) = AskedTaus
        /\ Len(station.time_weighted[1]) = Len(station.bagged_model[1])
        /\ \A i \in 1..Len(station.bagged_model[1]) :
              IsSet(station.bagged_model[1][i].solved_with)

\* a successful call with a two-tau list on a station that has been fitted before
C6_Witness ==
    /\ last.op = "weighted_model" /\ last.err = None
    /\ last.tau_list = Set(<<75, 25>>)
    /\ station.tau_list = <<50>>
    /\ TausOf(station.bagged_model[1]) = <<75, 25>>

(***************************************************************************)
(* C7: in weighted_model every optimize is preceded, for the same model,   *)
(* by setlb(None), itself after the construction of the model; the lower   *)
(* bound in place at optimize is None, never the solver's default.         *)
(***************************************************************************)
C7_SetLbBeforeOptimize ==
    /\ \A i \in 1..Len(last.log) :
          IsOptimize(last.log[i]) =>
              /\ last.log[i].beta_lb = None
              /\ \E j \in 1..(i - 1) :
                    /\ last.log[j].call = "setlb" /\ last.log[j].k = last.log[i].k
                    /\ last.log[j].beta_lb = None
                    /\ \E h \in 1..(j - 1) :
                          last.log[h].call = "wCQR" /\ last.log[h].k = last.log[i].k
    /\ (IsStation /\ IsSet(station.bagged_model)) =>
          \A i \in 1..Len(station.bagged_model[1]) :
              station.bagged_model[1][i].solved_with = Set(None)

\* two models optimized by one call
C7_Witness ==
    /\ FitCall
    /\ Cardinality({ i \in 1..Len(last.log) : IsOptimize(last.log[i]) }) = 2
    /\ Len(station.bagged_model[1]) = 2

(***************************************************************************)
(* C8: the raw dataset of a station is loaded for the station's own hour   *)
(* window: the loader is called with hour_from and hour_to of the station  *)
(* and every row of raw_data lies in [hour_from, hour_to).                 *)
(***************************************************************************)
C8_StationWindow ==
    (IsStation /\ IsSet(station.raw_data)) =>
        /\ ld.args.hour_from = station.hour_from
        /\ ld.args.hour_to = station.hour_to
        /\ \A j \in 1..Len(station.raw_data[1]) :
              InWindow(station.raw_data[1][j].total_time,
                       station.hour_from, station.hour_to)

(***************************************************************************)
(* C9: plot_model labels the i-th model of bagged_model with the tau that  *)
(* model was fitted with.                                                  *)
(***************************************************************************)
C9_LabelIsFittedTau ==
    (last.op = "plot_model" /\ last.err \in {None, "IndexError"}) =>
        /\ last.err = None
        /\ last.labels = TausOf(station.bagged_model[1])

(***************************************************************************)
(* C10 (as stated): as long as no call has raised, the bagged dataset held *)
(* was computed from the aggregate dataset held, the aggregate dataset     *)
(* from the raw dataset held, and the models were fitted on the bagged     *)
(* dataset held.                                                           *)
(***************************************************************************)
C10_Original ==
    (IsStation /\ ~raised) =>
        AggFresh(station) /\ BagFresh(station) /\ ModelsFresh(station)

(***************************************************************************)
(* C10 (amended): a stage refreshes its own cache from the cache of the    *)
(* stage before it and leaves the later caches as they are.  Right after a *)
(* successful aggregate the aggregate dataset is the one of the raw        *)
(* dataset held, right after a successful bagging the bagged dataset is    *)
(* the one of the aggregate dataset held, right after a successful         *)
(* weighted_model the models are fitted on the bagged dataset held, and    *)
(* right after a successful make_model all three hold.                     *)
(***************************************************************************)
C10_FreshAfterOwnStage ==
    (IsStation /\ last.err = None) =>
        /\ last.op = "aggregate" => AggFresh(station) /\ IsSet(station.agg_data)
        /\ last.op = "bagging" => BagFresh(station) /\ IsSet(station.bag_data)
        /\ last.op = "weighted_model" => ModelsFresh(station)
        /\ last.op = "make_model" =>
              /\ IsSet(station.agg_data) /\ IsSet(station.bag_data)
              /\ AggFresh(station) /\ BagFresh(station) /\ ModelsFresh(station)

\* a successful make_model on a station whose caches were filled before with
\* another aggregation period
C10_Witness ==
    /\ last.op = "make_model" /\ last.err = None
    /\ Len(station.bagged_model[1]) = 2
    /\ station.agg_time_period = Set(10)
    /\ raised

====
